---- MODULE Spec2Model ----
(***************************************************************************)
(* Model of src/util.rs: prerocess, create_co_matrix, cos_similarity,      *)
(* most_similar and ppmi, called in sequence by an external caller.        *)
(*                                                                         *)
(* A text (Rust &str) is a sequence of one-character strings; a token     *)
(* (String) is such a sequence too, the empty token being << >>.           *)
(* A HashMap is a function whose DOMAIN is its key set.  Vec indices are   *)
(* 0-based as in the source: a Vec is read with At and a matrix is a       *)
(* function over 0..n-1.                                                   *)
(***************************************************************************)
EXTENDS Integers, Sequences, FiniteSets, TLC

VARIABLES pc, text, corpus, word_to_id, id_to_word, window_size, co_matrix,
          query, similarity, pmi_matrix

vars == <<pc, text, corpus, word_to_id, id_to_word, window_size, co_matrix,
          query, similarity, pmi_matrix>>

\* ------------------------------------------------------------------ bounds
MaxTextLen == 4
MaxWindow == 2
MaxCorpusLen == 4
MaxWordId == 2
MaxDim == 2
MaxCount == 2

\* The characters a text is drawn from: a letter in both cases, the space
\* and the period (the only characters prerocess treats specially).
Chars == {"a", "A", " ", "."}

RECURSIVE SeqsUpTo(_, _)
SeqsUpTo(S, n) ==
    IF n = 0 THEN {<< >>}
    ELSE LET shorter == SeqsUpTo(S, n - 1)
         IN  shorter \cup {Append(s, x) : s \in shorter, x \in S}

Texts == SeqsUpTo(Chars, MaxTextLen)

\* Corpus is a public tuple struct: a caller may build any Vec<WordId>.
Corpora == SeqsUpTo(0..MaxWordId, MaxCorpusLen)

\* CoMatrix is a public tuple struct: a caller may build any square matrix.
SquareMatrices ==
    UNION {[(0..(n - 1)) -> [(0..(n - 1)) -> 0..MaxCount]] : n \in 0..MaxDim}

\* ------------------------------------------------------------- Vec helpers
\* Option<T>: None is the empty set and Some(x) is {x}.
None == {}
Some(x) == {x}
Unwrap(o) == CHOOSE x \in o : TRUE

At(v, idx) == v[idx + 1]

EmptyMap == << >>

\* ---------------------------------------------------------------- prerocess
AsciiLower == [c \in Chars |-> IF c = "A" THEN "a" ELSE c]

to_ascii_lowercase(s) == [k \in 1..Len(s) |-> AsciiLower[s[k]]]

RECURSIVE replace_dot(_)
replace_dot(s) ==
    IF s = << >> THEN << >>
    ELSE (IF Head(s) = "." THEN <<" ", ".">> ELSE <<Head(s)>>)
         \o replace_dot(Tail(s))

\* str::split(' '): every space ends a piece, pieces may be empty, and the
\* piece after the last space (the whole text if there is none) is yielded.
RECURSIVE split_from(_, _)
split_from(s, piece) ==
    IF s = << >> THEN <<piece>>
    ELSE IF Head(s) = " " THEN <<piece>> \o split_from(Tail(s), << >>)
    ELSE split_from(Tail(s), Append(piece, Head(s)))

split(s) == split_from(s, << >>)

Words(t) == split(replace_dot(to_ascii_lowercase(t)))

PrerocessInit == [word_to_id |-> EmptyMap, id_to_word |-> EmptyMap, corpus |-> << >>]

\* Only the insert into id_to_word is lost.
PrerocessInsertNoInverse(st, word) ==
    LET new_id == Cardinality(DOMAIN st.word_to_id)
    IN  [st EXCEPT !.word_to_id = (word :> new_id) @@ st.word_to_id]

\* Lines 23-27: the two inserts of an unseen word.
PrerocessInsert(st, word) ==
    LET new_id == Cardinality(DOMAIN st.word_to_id)
    IN  [st EXCEPT !.word_to_id = (word :> new_id) @@ st.word_to_id,
                   !.id_to_word = (new_id :> word) @@ st.id_to_word]

\* The id is pushed only when the word is new.
PrerocessBodyPushNew(st, word) ==
    IF word \notin DOMAIN st.word_to_id
    THEN LET st1 == PrerocessInsert(st, word)
         IN  [st1 EXCEPT !.corpus = Append(@, st1.word_to_id[word])]
    ELSE st

\* Lines 22-29: one iteration of the loop over the words.
PrerocessBody(st, word) ==
    LET st1 == IF word \notin DOMAIN st.word_to_id
               THEN PrerocessInsert(st, word)
               ELSE st
    IN  [st1 EXCEPT !.corpus = Append(@, st1.word_to_id[word])]

RECURSIVE PrerocessLoop(_, _)
PrerocessLoop(st, words) ==
    IF words = << >> THEN st
    ELSE PrerocessLoop(PrerocessBody(st, Head(words)), Tail(words))

prerocess(t) == PrerocessLoop(PrerocessInit, Words(t))

\* --------------------------------------------------------- create_co_matrix
MaxOf(S) == CHOOSE x \in S : \A y \in S : y <= x

Range(s) == {s[k] : k \in 1..Len(s)}

vocab_size_of(c) == IF c = << >> THEN 0 ELSE MaxOf(Range(c)) + 1

ZeroMatrix(n) == [r \in 0..(n - 1) |-> [k \in 0..(n - 1) |-> 0]]

checked_sub(a, b) == IF a >= b THEN Some(a - b) ELSE None

Increment(m, r, k) == [m EXCEPT ![r][k] = @ + 1]

\* Lines 41-44.
CountLeft(m, c, idx, i) ==
    LET left_idx == checked_sub(idx, i)
    IN  IF left_idx # None
        THEN Increment(m, At(c, idx), At(c, Unwrap(left_idx)))
        ELSE m

\* The right neighbour is credited to the neighbour's row.
CountRightTransposed(m, c, idx, i) ==
    LET right_idx == idx + i
    IN  IF right_idx < Len(c)
        THEN Increment(m, At(c, right_idx), At(c, idx))
        ELSE m

\* Lines 46-50.
CountRight(m, c, idx, i) ==
    LET right_idx == idx + i
    IN  IF right_idx < Len(c)
        THEN Increment(m, At(c, idx), At(c, right_idx))
        ELSE m

\* The range stops one short: 1..window_size.
RECURSIVE OffsetLoopShort(_, _, _, _, _)
OffsetLoopShort(m, c, idx, i, w) ==
    IF i >= w THEN m
    ELSE OffsetLoopShort(CountRight(CountLeft(m, c, idx, i), c, idx, i), c, idx, i + 1, w)

\* Lines 40-51: for i in 1..window_size + 1.
RECURSIVE OffsetLoop(_, _, _, _, _)
OffsetLoop(m, c, idx, i, w) ==
    IF i >= w + 1 THEN m
    ELSE OffsetLoop(CountRight(CountLeft(m, c, idx, i), c, idx, i), c, idx, i + 1, w)

\* Lines 39-52: for (idx, word_id) in corpus.0.iter().enumerate().
RECURSIVE PositionLoop(_, _, _, _)
PositionLoop(m, c, idx, w) ==
    IF idx >= Len(c) THEN m
    ELSE PositionLoop(OffsetLoop(m, c, idx, 1, w), c, idx + 1, w)

create_co_matrix(c, w) == PositionLoop(ZeroMatrix(vocab_size_of(c)), c, 0, w)

\* ------------------------------------------------------------------- f32
\* IEEE 754 binary32 values that are not negative (every operand of the
\* source is a count, a norm or EPSILON).  A finite value is m * 2^e with
\* m = 0 (zero) or 2^23 <= m < 2^24; every operation rounds to nearest,
\* ties to even, as the hardware does.  Exponents stay far from the
\* subnormal and overflow ranges for the operands used here.
MantBits == 24

Pow2(n) == 2 ^ n

MantMin == Pow2(MantBits - 1)
MantMax == Pow2(MantBits)

Fin(m, e) == [cls |-> "fin", m |-> m, e |-> e]
Zero == Fin(0, 0)
Inf == [cls |-> "inf", m |-> 0, e |-> 0]
NaN == [cls |-> "nan", m |-> 0, e |-> 0]

IsZero(a) == a.cls = "fin" /\ a.m = 0

\* Number of low bits to drop so that sig fits in MantBits bits.
RECURSIVE ExcessBits(_)
ExcessBits(sig) == IF sig < MantMax THEN 0 ELSE 1 + ExcessBits(sig \div 2)

RECURSIVE ScaleUp(_, _)
ScaleUp(sig, e) == IF sig >= MantMin THEN Fin(sig, e) ELSE ScaleUp(2 * sig, e - 1)

\* The f32 nearest to sig * 2^e (sig > 0), where sticky tells that the
\* exact value lies strictly above sig * 2^e and below (sig + 1) * 2^e.
RoundF32(sig, e, sticky) ==
    LET k == ExcessBits(sig)
    IN  IF k = 0 THEN ScaleUp(sig, e)
        ELSE LET q == sig \div Pow2(k)
                 r == sig % Pow2(k)
                 half == Pow2(k - 1)
                 up == \/ r > half
                       \/ r = half /\ (sticky \/ (q % 2) = 1)
                 q1 == IF up THEN q + 1 ELSE q
             IN  IF q1 = MantMax THEN Fin(MantMin, e + k + 1) ELSE Fin(q1, e + k)

\* `n as f32` for a usize n.
FromUsize(n) == IF n = 0 THEN Zero ELSE RoundF32(n, 0, FALSE)

\* std::f32::EPSILON = 2^-23.
EPSILON == Fin(MantMin, 0 - 2 * (MantBits - 1))

GuardBits == 3

F32Add(a, b) ==
    IF a.cls = "nan" \/ b.cls = "nan" THEN NaN
    ELSE IF a.cls = "inf" \/ b.cls = "inf" THEN Inf
    ELSE IF IsZero(a) THEN b
    ELSE IF IsZero(b) THEN a
    ELSE LET hi == IF a.e >= b.e THEN a ELSE b
             lo == IF a.e >= b.e THEN b ELSE a
             d == hi.e - lo.e
             wide == lo.m * Pow2(GuardBits)
             far == d >= MantBits + GuardBits
             shifted == IF far THEN 0 ELSE wide \div Pow2(d)
             sticky == IF far THEN TRUE ELSE (wide % Pow2(d)) # 0
         IN  RoundF32(hi.m * Pow2(GuardBits) + shifted, hi.e - GuardBits, sticky)

HalfBits == 12

\* The 48-bit product of two mantissas, as <<high 24 bits, low 24 bits>>.
MantProduct(x, y) ==
    LET B == Pow2(HalfBits)
        x1 == x \div B
        x0 == x % B
        y1 == y \div B
        y0 == y % B
        low == x0 * y0
        mid == (x1 * y0) + (x0 * y1) + (low \div B)
    IN  <<(x1 * y1) + (mid \div B), ((mid % B) * B) + (low % B)>>

F32Mul(a, b) ==
    IF a.cls = "nan" \/ b.cls = "nan" THEN NaN
    ELSE IF a.cls = "inf" \/ b.cls = "inf"
         THEN (IF IsZero(a) \/ IsZero(b) THEN NaN ELSE Inf)
    ELSE IF IsZero(a) \/ IsZero(b) THEN Zero
    ELSE LET p == MantProduct(a.m, b.m)
             cut == Pow2(MantBits - 2)
         IN  RoundF32((p[1] * 4) + (p[2] \div cut), a.e + b.e + MantBits - 2,
                      p[2] % cut # 0)

\* Long division, ChunkBits quotient bits at a time so that no intermediate
\* value needs more than 31 bits: n more chunks of (q + rem / d).
ChunkBits == 7
QuotChunks == 4

RECURSIVE DivBits(_, _, _, _)
DivBits(q, rem, d, n) ==
    IF n = 0 THEN <<q, rem>>
    ELSE LET wide == rem * Pow2(ChunkBits)
         IN  DivBits((q * Pow2(ChunkBits)) + (wide \div d), wide % d, d, n - 1)

F32Div(a, b) ==
    IF a.cls = "nan" \/ b.cls = "nan" THEN NaN
    ELSE IF a.cls = "inf" THEN (IF b.cls = "inf" THEN NaN ELSE Inf)
    ELSE IF b.cls = "inf" THEN Zero
    ELSE IF IsZero(b) THEN (IF IsZero(a) THEN NaN ELSE Inf)
    ELSE IF IsZero(a) THEN Zero
    ELSE LET qr == DivBits(a.m \div b.m, a.m % b.m, b.m, QuotChunks)
         IN  RoundF32(qr[1], a.e - b.e - (ChunkBits * QuotChunks), qr[2] # 0)

RootBits == 26

\* Digit-by-digit square root: the radicand's bit pairs from the top
\* (pairs > 0 left in rad), then zero pairs until root has RootBits bits.
RECURSIVE SqrtBits(_, _, _, _, _)
SqrtBits(root, rem, rad, pairs, shift) ==
    IF pairs = 0 /\ root >= Pow2(RootBits - 1) THEN <<root, rem, shift>>
    ELSE LET next == IF pairs = 0 THEN 0 ELSE (rad \div Pow2(2 * (pairs - 1))) % 4
             r4 == 4 * rem + next
             trial == 4 * root + 1
             pairs1 == IF pairs = 0 THEN 0 ELSE pairs - 1
             shift1 == IF pairs = 0 THEN shift + 1 ELSE shift
         IN  IF r4 >= trial
             THEN SqrtBits(2 * root + 1, r4 - trial, rad, pairs1, shift1)
             ELSE SqrtBits(2 * root, r4, rad, pairs1, shift1)

F32Sqrt(a) ==
    IF a.cls # "fin" \/ IsZero(a) THEN a
    ELSE LET odd == (a.e % 2) # 0
             rad == IF odd THEN 2 * a.m ELSE a.m
             e2 == IF odd THEN a.e - 1 ELSE a.e
             s == SqrtBits(0, 0, rad, (MantBits + 2) \div 2, 0)
         IN  RoundF32(s[1], (e2 \div 2) - s[3], s[2] # 0)

F32Gt(a, b) ==
    /\ a.cls # "nan" /\ b.cls # "nan"
    /\ \/ a.cls = "inf" /\ b.cls = "fin"
       \/ /\ a.cls = "fin" /\ b.cls = "fin"
          /\ ~IsZero(a)
          /\ \/ IsZero(b)
             \/ a.e > b.e
             \/ a.e = b.e /\ a.m > b.m

\* f32::partial_cmp: "Less", "Equal", "Greater", or None for a NaN.
partial_cmp(a, b) ==
    IF a.cls = "nan" \/ b.cls = "nan" THEN None
    ELSE IF F32Gt(b, a) THEN Some("Less")
    ELSE IF F32Gt(a, b) THEN Some("Greater")
    ELSE Some("Equal")

\* ----------------------------------------------------------- cos_similarity
VecLen(v) == Cardinality(DOMAIN v)

MinOf(a, b) == IF a <= b THEN a ELSE b

\* x.iter().map(|&x| (x * x) as f32).sum::<f32>(), folded from index k.
RECURSIVE SumSquares(_, _, _)
SumSquares(v, k, acc) ==
    IF k >= VecLen(v) THEN acc
    ELSE SumSquares(v, k + 1, F32Add(acc, FromUsize(v[k] * v[k])))

\* Lines 57-58: the Euclidean norm plus EPSILON.
Norm(v) == F32Add(F32Sqrt(SumSquares(v, 0, Zero)), EPSILON)

\* Lines 59-62: the zipped, mapped and summed terms, folded from index k.
RECURSIVE SumTerms(_, _, _, _, _, _)
SumTerms(x, y, x0, y0, k, acc) ==
    IF k >= MinOf(VecLen(x), VecLen(y)) THEN acc
    ELSE SumTerms(x, y, x0, y0, k + 1,
                  F32Add(acc, F32Mul(F32Div(FromUsize(x[k]), x0),
                                     F32Div(FromUsize(y[k]), y0))))

cos_similarity(x, y) == SumTerms(x, y, Norm(x), Norm(y), 0, Zero)

\* ------------------------------------------------------------- most_similar
Panic == [panicked |-> TRUE, value |-> << >>]
Ok(v) == [panicked |-> FALSE, value |-> v]

\* Lines 81-91: the (word, score) pairs of rows i, i+1, ... except row skip.
RECURSIVE Collect(_, _, _, _, _)
Collect(i, skip, query_vec, id_to_word_, word_matrix) ==
    IF i >= VecLen(word_matrix) THEN << >>
    ELSE IF i = skip THEN Collect(i + 1, skip, query_vec, id_to_word_, word_matrix)
    ELSE <<[word |-> id_to_word_[i],
            score |-> cos_similarity(word_matrix[i], query_vec)]>>
         \o Collect(i + 1, skip, query_vec, id_to_word_, word_matrix)

\* The comparator of line 92; unwrap() panics when it is None.
Compare(a, b) == partial_cmp(a.score, b.score)

Comparable(pairs) ==
    \A a \in 1..Len(pairs) : \A b \in 1..Len(pairs) :
        Compare(pairs[a], pairs[b]) # None

\* An element is placed before the elements that compare Equal to it.
RECURSIVE InsertBeforeEqual(_, _)
InsertBeforeEqual(sorted, x) ==
    IF sorted = << >> THEN <<x>>
    ELSE IF Unwrap(Compare(Head(sorted), x)) = "Less"
    THEN <<Head(sorted)>> \o InsertBeforeEqual(Tail(sorted), x)
    ELSE <<x>> \o sorted

\* slice::sort_by is stable: an element is placed after every element that
\* does not compare Greater than it, so equal elements keep their order.
RECURSIVE InsertSorted(_, _)
InsertSorted(sorted, x) ==
    IF sorted = << >> THEN <<x>>
    ELSE IF Unwrap(Compare(Head(sorted), x)) = "Greater"
    THEN <<x>> \o sorted
    ELSE <<Head(sorted)>> \o InsertSorted(Tail(sorted), x)

RECURSIVE sort_by(_, _)
sort_by(pairs, sorted) ==
    IF pairs = << >> THEN sorted
    ELSE sort_by(Tail(pairs), InsertSorted(sorted, Head(pairs)))

\* The call of line 93 is missing.
NoReverse(s) == s

\* Line 93.
Reverse(s) == [k \in 1..Len(s) |-> s[Len(s) + 1 - k]]

\* The filter of line 85 is missing.
CollectAll(query_id, id_to_word_, word_matrix) ==
    Collect(0, VecLen(word_matrix), word_matrix[query_id], id_to_word_, word_matrix)

CollectOthers(query_id, id_to_word_, word_matrix) ==
    Collect(0, query_id, word_matrix[query_id], id_to_word_, word_matrix)

most_similar(query_, word_to_id_, id_to_word_, word_matrix) ==
    IF query_ \notin DOMAIN word_to_id_ THEN Ok(<< >>)
    ELSE LET query_id == word_to_id_[query_]
         IN  IF \/ query_id \notin DOMAIN word_matrix
                \/ \E i \in DOMAIN word_matrix : i # query_id /\ i \notin DOMAIN id_to_word_
             THEN Panic
             ELSE LET pairs == CollectOthers(query_id, id_to_word_, word_matrix)
                  IN  IF ~Comparable(pairs) THEN Panic
                      ELSE Ok(Reverse(sort_by(pairs, << >>)))

\* --------------------------------------------------------------------- ppmi
\* A PmiMatrix entry is 0.0 or the result of f32::log2.  log2 is monotone,
\* log2(1.0) = 0.0, log2 of a NaN is NaN and log2 of infinity is infinity, so
\* an entry is kept as the f32 value it is the binary logarithm of.
One == FromUsize(1)
Log2(a) == [log2_of |-> a]
PmiZero == Log2(One)

\* pmi > 0.0 (false for a NaN).
PmiPositive(p) == F32Gt(p.log2_of, One)

RECURSIVE SumRange(_, _, _)
SumRange(f, k, n) == IF k >= n THEN 0 ELSE f[k] + SumRange(f, k + 1, n)

Cols(c) == VecLen(c[0])

\* Line 103.
Total(c) == SumRange([j \in DOMAIN c |-> SumRange(c[j], 0, VecLen(c[j]))], 0, VecLen(c))

\* Lines 104-109: s[i] is the sum of column i.
ColumnSums(c) == [i \in 0..(Cols(c) - 1) |-> SumRange([j \in DOMAIN c |-> c[j][i]], 0, VecLen(c))]

\* Line 113.
Pmi(c, n, s, i, j) ==
    Log2(F32Add(F32Div(FromUsize(c[i][j] * n), FromUsize(s[j] * s[i])), EPSILON))

\* Lines 111-118.
PmiCell(c, n, s, i, j) ==
    LET pmi == Pmi(c, n, s, i, j)
    IN  IF PmiPositive(pmi) THEN pmi ELSE PmiZero

ppmi(c) ==
    IF 0 \notin DOMAIN c THEN Panic
    ELSE LET n == Total(c)
             s == ColumnSums(c)
         IN  Ok([i \in 0..(VecLen(c) - 1) |->
                    [j \in 0..(Cols(c) - 1) |-> PmiCell(c, n, s, i, j)]])

\* ------------------------------------------------------------------ actions
\* pc: "text" (a text is given), "vocab" (a corpus is at hand), "matrix" (a
\* co-occurrence matrix is at hand), "ranked" / "pmi" (most_similar / ppmi
\* returned), "panic" (the call panicked).
Blank ==
    /\ window_size = 0
    /\ co_matrix = << >>
    /\ query = << >>
    /\ similarity = << >>
    /\ pmi_matrix = << >>

InitText ==
    /\ pc = "text"
    /\ text \in Texts
    /\ corpus = << >>
    /\ word_to_id = EmptyMap
    /\ id_to_word = EmptyMap
    /\ Blank

\* The caller builds a Corpus itself.
InitCorpus ==
    /\ pc = "vocab"
    /\ text = << >>
    /\ corpus \in Corpora
    /\ word_to_id = EmptyMap
    /\ id_to_word = EmptyMap
    /\ Blank

\* The caller builds a CoMatrix itself.
InitMatrix ==
    /\ pc = "matrix"
    /\ text = << >>
    /\ corpus = << >>
    /\ word_to_id = EmptyMap
    /\ id_to_word = EmptyMap
    /\ window_size = 0
    /\ co_matrix \in SquareMatrices
    /\ query = << >>
    /\ similarity = << >>
    /\ pmi_matrix = << >>

CallPrerocess ==
    /\ pc = "text"
    /\ LET r == prerocess(text)
       IN  /\ corpus' = r.corpus
           /\ word_to_id' = r.word_to_id
           /\ id_to_word' = r.id_to_word
    /\ pc' = "vocab"
    /\ UNCHANGED <<text, window_size, co_matrix, query, similarity, pmi_matrix>>

CallCreateCoMatrix ==
    /\ pc = "vocab"
    /\ \E w \in 0..MaxWindow :
          /\ window_size' = w
          /\ co_matrix' = create_co_matrix(corpus, w)
    /\ pc' = "matrix"
    /\ UNCHANGED <<text, corpus, word_to_id, id_to_word, query, similarity, pmi_matrix>>

\* The queries tried: every word of the vocabulary and a word outside it.
Unknown == <<"z">>
Queries == DOMAIN word_to_id \cup {Unknown}

CallMostSimilar ==
    /\ pc = "matrix"
    /\ \E q \in Queries :
          LET r == most_similar(q, word_to_id, id_to_word, co_matrix)
          IN  /\ query' = q
              /\ similarity' = r.value
              /\ pc' = IF r.panicked THEN "panic" ELSE "ranked"
    /\ UNCHANGED <<text, corpus, word_to_id, id_to_word, window_size, co_matrix, pmi_matrix>>

CallPpmi ==
    /\ pc = "matrix"
    /\ LET r == ppmi(co_matrix)
       IN  /\ pmi_matrix' = r.value
           /\ pc' = IF r.panicked THEN "panic" ELSE "pmi"
    /\ UNCHANGED <<text, corpus, word_to_id, id_to_word, window_size, co_matrix, query, similarity>>

\* The pipeline from a text.
Init == InitText
Next == CallPrerocess \/ CallCreateCoMatrix \/ CallMostSimilar \/ CallPpmi
Spec == Init /\ [][Next]_vars

\* create_co_matrix and ppmi on any corpus.
NextCo == CallCreateCoMatrix \/ CallPpmi
SpecCo == InitCorpus /\ [][NextCo]_vars

\* ppmi on any square matrix.
NextPpmi == CallPpmi
SpecPpmi == InitMatrix /\ [][NextPpmi]_vars

\* ------------------------------------------------------------------- claims
Abs(x) == IF x < 0 THEN 0 - x ELSE x

Positions(c) == 0..(Len(c) - 1)

\* The ordered position pairs (p, q) of tokens i and j at most w apart.
PairsWithin(c, w, i, j) ==
    {pq \in Positions(c) \X Positions(c) :
        /\ At(c, pq[1]) = i
        /\ At(c, pq[2]) = j
        /\ 1 <= Abs(pq[1] - pq[2])
        /\ Abs(pq[1] - pq[2]) <= w}

MatrixBuilt == pc \in {"matrix", "ranked", "pmi", "panic"}

\* C1: the matrix returned by create_co_matrix has, at [i][j], the number of
\* ordered position pairs (p, q) with corpus[p] = i, corpus[q] = j and
\* 1 <= |p - q| <= window_size, both positions inside the corpus.
C1_CoMatrixCountsPairs ==
    MatrixBuilt =>
        /\ DOMAIN co_matrix = 0..(vocab_size_of(corpus) - 1)
        /\ \A i \in DOMAIN co_matrix :
              /\ DOMAIN co_matrix[i] = DOMAIN co_matrix
              /\ \A j \in DOMAIN co_matrix :
                    co_matrix[i][j] = Cardinality(PairsWithin(corpus, window_size, i, j))

\* A token repeats inside its own window and the window reaches past both
\* ends of the corpus.
C1_Witness ==
    /\ pc = "matrix"
    /\ window_size >= 2
    /\ Len(corpus) >= 3
    /\ window_size >= Len(corpus) - 1
    /\ \E i \in DOMAIN co_matrix : co_matrix[i][i] >= 2
    /\ \E i \in DOMAIN co_matrix : \E j \in DOMAIN co_matrix : i # j /\ co_matrix[i][j] >= 1

\* C4: for window_size >= 1 the matrix returned by create_co_matrix is
\* symmetric.
C4_CoMatrixSymmetric ==
    (MatrixBuilt /\ window_size >= 1) =>
        \A i \in DOMAIN co_matrix : \A j \in DOMAIN co_matrix :
            co_matrix[i][j] = co_matrix[j][i]

C4_Witness ==
    /\ pc = "matrix"
    /\ window_size >= 1
    /\ \E i \in DOMAIN co_matrix : \E j \in DOMAIN co_matrix :
          i # j /\ co_matrix[i][j] >= 1 /\ co_matrix[i][j] = co_matrix[j][i]

Preprocessed == pc # "text"

\* The tokens of the text that occur before the first occurrence of word.
RECURSIVE TokensBefore(_, _)
TokensBefore(words, word) ==
    IF words = << >> \/ Head(words) = word THEN {}
    ELSE {Head(words)} \cup TokensBefore(Tail(words), word)

\* C2: the corpus returned by prerocess has one entry per token of the text,
\* in order, and the entry of a token is the number of distinct tokens that
\* first occur before it.
C2_CorpusFollowsTokens ==
    Preprocessed =>
        LET words == Words(text)
        IN  /\ Len(corpus) = Len(words)
            /\ \A p \in 1..Len(words) :
                  /\ corpus[p] = Cardinality(TokensBefore(words, words[p]))
                  /\ words[p] \in DOMAIN word_to_id
                  /\ corpus[p] = word_to_id[words[p]]

\* The text holds an upper-case letter and a token occurs again after
\* another token.
C2_Witness ==
    /\ pc = "vocab"
    /\ "A" \in Range(text)
    /\ \E p \in 1..Len(corpus) : \E q \in 1..Len(corpus) :
          p + 1 < q /\ corpus[p] = corpus[q] /\ corpus[p + 1] # corpus[p]

\* C3: word_to_id and id_to_word returned by prerocess are mutually inverse,
\* have the same number of entries, and the ids are exactly 0..vocab_size-1.
C3_MappingsInverse ==
    Preprocessed =>
        LET vocab_size == Cardinality(DOMAIN word_to_id)
        IN  /\ Cardinality(DOMAIN id_to_word) = vocab_size
            /\ DOMAIN id_to_word = 0..(vocab_size - 1)
            /\ {word_to_id[w] : w \in DOMAIN word_to_id} = 0..(vocab_size - 1)
            /\ \A w \in Range(Words(text)) :
                  /\ w \in DOMAIN word_to_id
                  /\ id_to_word[word_to_id[w]] = w

C3_Witness ==
    /\ pc = "vocab"
    /\ Cardinality(DOMAIN word_to_id) >= 3
    /\ Len(corpus) > Cardinality(DOMAIN word_to_id)

Occurrences(sim, w) == {k \in 1..Len(sim) : sim[k].word = w}

\* C5: most_similar returns the empty sequence for a query outside
\* word_to_id, without an error; for a query inside it the result holds every
\* other vocabulary word exactly once and never the query.
C5_EveryOtherWordOnce ==
    /\ pc # "panic"
    /\ pc = "ranked" =>
          IF query \notin DOMAIN word_to_id THEN similarity = << >>
          ELSE /\ Len(similarity) = Cardinality(DOMAIN word_to_id) - 1
               /\ Occurrences(similarity, query) = {}
               /\ \A w \in DOMAIN word_to_id \ {query} :
                     Cardinality(Occurrences(similarity, w)) = 1

C5_Witness ==
    /\ pc = "ranked"
    /\ query \in DOMAIN word_to_id
    /\ Len(similarity) >= 2

ScoreEqual(a, b) == ~F32Gt(a.score, b.score) /\ ~F32Gt(b.score, a.score)

\* C6: the sequence returned by most_similar is in descending order of score.
C6_DescendingScore ==
    pc = "ranked" =>
        \A a \in 1..Len(similarity) : \A b \in 1..Len(similarity) :
            a < b => ~F32Gt(similarity[b].score, similarity[a].score)

\* A word with a larger id outranks, with a strictly greater score, a word
\* with a smaller id.
C6_Witness ==
    /\ pc = "ranked"
    /\ \E a \in 1..Len(similarity) : \E b \in 1..Len(similarity) :
          /\ a < b
          /\ F32Gt(similarity[a].score, similarity[b].score)
          /\ word_to_id[similarity[a].word] > word_to_id[similarity[b].word]

\* C7: in the sequence returned by most_similar, of two words with equal
\* scores the one with the smaller WordId comes first.
C7_TiesAscendingId ==
    pc = "ranked" =>
        \A a \in 1..Len(similarity) : \A b \in 1..Len(similarity) :
            (a < b /\ ScoreEqual(similarity[a], similarity[b]))
                => word_to_id[similarity[a].word] < word_to_id[similarity[b].word]

\* C7 as amended: of two words with equal scores the one with the larger
\* WordId comes first (a stable ascending sort, then reversed).
C7_TiesDescendingId ==
    pc = "ranked" =>
        \A a \in 1..Len(similarity) : \A b \in 1..Len(similarity) :
            (a < b /\ ScoreEqual(similarity[a], similarity[b]))
                => word_to_id[similarity[a].word] > word_to_id[similarity[b].word]

\* Two words tie on a score that is not zero.
C7_Witness ==
    /\ pc = "ranked"
    /\ \E a \in 1..Len(similarity) : \E b \in 1..Len(similarity) :
          /\ a < b
          /\ ScoreEqual(similarity[a], similarity[b])
          /\ ~IsZero(similarity[a].score)

\* C8: prerocess never emits an empty token, so the empty string is no key
\* of word_to_id, and the empty text yields an empty corpus and empty maps.
C8_NoEmptyToken ==
    Preprocessed =>
        /\ << >> \notin DOMAIN word_to_id
        /\ text = << >> =>
              /\ corpus = << >>
              /\ DOMAIN word_to_id = {}
              /\ DOMAIN id_to_word = {}

\* C9: create_co_matrix on an empty corpus and ppmi on a matrix without rows
\* end in an error and never return a zero-by-zero matrix.
C9_EmptyInputFailsFast ==
    /\ (pc = "matrix" /\ corpus = << >>) => DOMAIN co_matrix # {}
    /\ pc = "pmi" => DOMAIN co_matrix # {}

PmiFiniteNonNegative(p) ==
    /\ p.log2_of.cls = "fin"
    /\ ~F32Gt(One, p.log2_of)

\* C10: for every non-empty square matrix of counts, every entry of the
\* matrix returned by ppmi is finite and >= 0, also when a column sum is 0.
C10_PpmiFiniteNonNegative ==
    pc = "pmi" =>
        \A i \in DOMAIN pmi_matrix : \A j \in DOMAIN pmi_matrix[i] :
            PmiFiniteNonNegative(pmi_matrix[i][j])

====
